---- MODULE Spec2Model ----
(***************************************************************************)
(* Model of bot.py: a Telegram bot that keeps a rolling per-user           *)
(* conversation history, forwards it to a chat-completion API and relays   *)
(* the reply; voice messages are transcribed first.                        *)
(*                                                                         *)
(* Handlers are asyncio coroutines.  A coroutine runs without interruption *)
(* from one `await` that really suspends to the next; the OpenAI client is *)
(* the synchronous one, so its calls do not suspend: the handler keeps the *)
(* event loop while the call is outstanding.  The variable `running` names *)
(* the task that holds the event loop (0: the loop is free).  Handlers of  *)
(* different updates may overlap at their awaits; a strictly sequential    *)
(* dispatch of updates is the subset of behaviours in which an update is   *)
(* dispatched only when no handler is in flight.                           *)
(*                                                                         *)
(* Text is modelled as a sequence of tokens, so that concatenation and     *)
(* "starts with" are what they are for strings; the empty string is << >>. *)
(***************************************************************************)
EXTENDS Integers, Sequences, FiniteSets, TLC

\* ---------------------------------------------------------------- bounds
MaxUpdates == 2      \* updates dispatched in one behaviour

\* ------------------------------------------------------------- constants
MAX_HISTORY == 10

Users == {1, 2}
Texts == {<<"a">>, <<"b">>}          \* message texts and transcripts
Replies == {<<"x">>}                 \* completion results
TaskIds == {1, 2}                    \* handler invocations in flight at once

GREETING == <<"Greetings! I am Wonder, your personal AI assistant.">>
HELP_TEXT == <<"I'm here to help!">>
CLEARED_TEXT == <<"Conversation history has been cleared. Let's start fresh!">>
PROCESSING_TEXT == <<"Processing your voice message...">>
APOLOGY == <<"I apologize, but I encountered an error. Please try again later.">>
VOICE_APOLOGY == <<"I apologize, but I encountered an error processing your voice message. Please try again or send your message as text.">>
DEFAULT_PROMPT == <<"You are a helpful assistant.">>

HeardText(t) == <<"I heard: ">> \o t \o <<"Thinking...">>

\* The settings of the SYSTEM_PROMPT environment variable: unset, empty, set.
Environments == {{}, {<<"SYSTEM_PROMPT", <<>> >>}, {<<"SYSTEM_PROMPT", <<"You are Wonder.">> >>}}

\* The clock reading formatted by strftime (one reading: the clock is external).
date_str == <<"Wednesday, November 04, 2026">>
time_str == <<"9:05 AM">>

VARIABLES
    conversation_history,   \* user id -> list of (role, content)
    tasks,                  \* task id -> the handler invocation in that slot
    running,                \* the task holding the event loop, 0 if none
    files,                  \* the temporary files that exist
    nUpdates,               \* updates dispatched so far
    appended                \* user id -> turns appended since the last clear

vars == <<conversation_history, tasks, running, files, nUpdates, appended>>

\* ------------------------------------------------------------ list helpers
\* Mutant: the slice keeps the oldest n elements (s[:n]).
LastN_Oldest(s, n) == IF Len(s) > n THEN SubSeq(s, 1, n) ELSE s

\* Python's s[-n:] for n > 0.
LastN(s, n) == IF Len(s) > n THEN SubSeq(s, Len(s) - n + 1, Len(s)) ELSE s

Last(s) == s[Len(s)]

Occurrences(s, x) == Cardinality({i \in 1..Len(s) : s[i] = x})

\* ------------------------------------------------------- ConversationStore
\* Mutant: the turn is stored with the role of the prompt.
HistAppend_System(h, role, content) == Append(h, <<"system", content>>)

\* Mutant: the turn is inserted at the front of the list.
HistAppend_Front(h, role, content) == <<<<role, content>>>> \o h

\* conversation_history[user_id].append((role, content))
HistAppend(h, role, content) == Append(h, <<role, content>>)

\* Mutant: the length test is off by one.
HistTruncate_OffByOne(h) ==
    IF Len(h) > MAX_HISTORY + 1 THEN LastN(h, MAX_HISTORY) ELSE h

\* if len(...) > MAX_HISTORY: ... = ...[-MAX_HISTORY:]
HistTruncate(h) == IF Len(h) > MAX_HISTORY THEN LastN(h, MAX_HISTORY) ELSE h

\* Mutant: only the newest turn is removed (pop() for clear()).
HistClear_Pop(h) == IF h = <<>> THEN h ELSE SubSeq(h, 1, Len(h) - 1)

\* conversation_history[user_id].clear()
HistClear(h) == <<>>

\* ---------------------------------------------------------- PromptAssembler
\* os.getenv(name, default)
getenv(env, name, default) ==
    IF \E p \in env : p[1] = name
    THEN (CHOOSE p \in env : p[1] = name)[2]
    ELSE default

time_aware_prompt(env) ==
    getenv(env, "SYSTEM_PROMPT", DEFAULT_PROMPT)
        \o <<" The current date is ">> \o date_str
        \o <<" and the time is ">> \o time_str \o <<" Pacific Time.">>

\* Mutant: the history is emitted newest first.
build_messages_Reversed(h, new_message, env) ==
    <<[role |-> "system", content |-> time_aware_prompt(env)]>>
        \o [i \in 1..Len(h) |-> [role |-> h[Len(h) + 1 - i][1],
                                  content |-> h[Len(h) + 1 - i][2]]]
        \o <<[role |-> "user", content |-> new_message]>>

build_messages(h, new_message, env) ==
    <<[role |-> "system", content |-> time_aware_prompt(env)]>>
        \o [i \in 1..Len(h) |-> [role |-> h[i][1], content |-> h[i][2]]]
        \o <<[role |-> "user", content |-> new_message]>>

\* ------------------------------------------------------------------- tasks
Idle == [pc |-> "idle", kind |-> "none", user |-> 0, text |-> <<>>,
         msgs |-> <<>>, reply |-> <<>>, temp |-> <<>>, pre |-> <<>>,
         out |-> <<>>, calls |-> <<>>, err |-> "none", env |-> {}]

NewTask(kind, u) == [Idle EXCEPT !.kind = kind, !.user = u]

\* A handler that has ended, its locals gone: it returned, which frees the
\* slot, or an exception left it ("raised").
Ended(how) == IF how = "raised" THEN [Idle EXCEPT !.pc = "raised"] ELSE Idle

Finished(t) == tasks[t].pc \in {"idle", "raised"}

\* The places where a handler is suspended in an await.
AwaitPcs == {"c_reply", "t_reply", "t_apology", "v_ack", "v_getfile",
             "v_download", "v_edit", "v_reply", "v_apology"}

\* The places between the two statements of update_conversation_history.
TruncPcs == {"p_trunc_user", "p_trunc_asst"}

\* Mutant: the completion call is awaited, so the handler is suspended while
\* it is outstanding.
YieldsAt_Completion(pc) == pc \in AwaitPcs \cup {"completion"}

\* Mutant: update_conversation_history suspends between its append and its
\* truncation.
YieldsAt_InUpdate(pc) == pc \in AwaitPcs \cup TruncPcs

YieldsAt(pc) == pc \in AwaitPcs

\* The event loop after task t moved to pc: free if t suspends or ends there.
LoopAfter(t, pc) == IF YieldsAt(pc) \/ pc \in {"idle", "raised"} THEN 0 ELSE t

\* Task t can take its next step: it holds the event loop, or it is suspended
\* in an await and the event loop is free.
Runnable(t) == running = LoopAfter(t, tasks[t].pc)

\* The slot a new handler invocation takes: the lowest one not in use.
FreeSlot(t) == Finished(t) /\ \A s \in TaskIds : s < t => ~Finished(s)

CanDispatch(t) == running = 0 /\ nUpdates < MaxUpdates /\ FreeSlot(t)

\* ---------------------------------------------------------------- commands
\* /start: clears the history, then awaits reply_text(greeting).
start(t, u) ==
    /\ CanDispatch(t)
    /\ conversation_history' = [conversation_history EXCEPT ![u] = HistClear(@)]
    /\ appended' = [appended EXCEPT ![u] = <<>>]
    /\ tasks' = [tasks EXCEPT ![t] =
                    [NewTask("start", u) EXCEPT !.pc = "c_reply", !.out = <<GREETING>>]]
    /\ running' = LoopAfter(t, tasks'[t].pc)
    /\ nUpdates' = nUpdates + 1
    /\ UNCHANGED files

\* Mutant: /help resets the conversation as /start does.
help_command_Clears(t, u) ==
    /\ CanDispatch(t)
    /\ conversation_history' = [conversation_history EXCEPT ![u] = HistClear(@)]
    /\ appended' = [appended EXCEPT ![u] = <<>>]
    /\ tasks' = [tasks EXCEPT ![t] =
                    [NewTask("help", u) EXCEPT !.pc = "c_reply", !.out = <<HELP_TEXT>>]]
    /\ running' = LoopAfter(t, tasks'[t].pc)
    /\ nUpdates' = nUpdates + 1
    /\ UNCHANGED files

\* /help: awaits reply_text(help text).
help_command(t, u) ==
    /\ CanDispatch(t)
    /\ tasks' = [tasks EXCEPT ![t] =
                    [NewTask("help", u) EXCEPT !.pc = "c_reply", !.out = <<HELP_TEXT>>]]
    /\ running' = LoopAfter(t, tasks'[t].pc)
    /\ nUpdates' = nUpdates + 1
    /\ UNCHANGED <<conversation_history, appended, files>>

\* /clear: clears the history, then awaits reply_text(confirmation).
clear_history(t, u) ==
    /\ CanDispatch(t)
    /\ conversation_history' = [conversation_history EXCEPT ![u] = HistClear(@)]
    /\ appended' = [appended EXCEPT ![u] = <<>>]
    /\ tasks' = [tasks EXCEPT ![t] =
                    [NewTask("clear", u) EXCEPT !.pc = "c_reply", !.out = <<CLEARED_TEXT>>]]
    /\ running' = LoopAfter(t, tasks'[t].pc)
    /\ nUpdates' = nUpdates + 1
    /\ UNCHANGED files

\* The reply_text of a command handler completes; a command handler has no
\* try/except, so a failed send leaves the handler as an exception.
command_reply_done(t) ==
    /\ Runnable(t)
    /\ tasks[t].pc = "c_reply"
    /\ \/ /\ tasks' = [tasks EXCEPT ![t] = Ended("done")]
       \/ /\ tasks' = [tasks EXCEPT ![t] = Ended("raised")]
    /\ running' = LoopAfter(t, tasks'[t].pc)
    /\ UNCHANGED <<conversation_history, appended, files, nUpdates>>

\* ------------------------------------------------------------ try/except
\* An exception raised inside the try block of handle_message / handle_voice:
\* the except clause logs it and awaits reply_text(apology).
\* Mutant: the two apology texts are exchanged.
ApologyOf_Swapped(kind) == IF kind = "voice" THEN APOLOGY ELSE VOICE_APOLOGY

ApologyOf(kind) == IF kind = "voice" THEN VOICE_APOLOGY ELSE APOLOGY
ApologyPc(kind) == IF kind = "voice" THEN "v_apology" ELSE "t_apology"

\* Mutant: the except clause logs the error and sends nothing.
Caught_Silent(rec, origin) ==
    [rec EXCEPT !.pc = ApologyPc(rec.kind), !.err = origin, !.msgs = <<>>,
                !.pre = <<>>, !.env = {}]

\* Mutant: a failed completion call is issued again.
Retried(rec, origin) ==
    IF origin = "completion" THEN [rec EXCEPT !.pc = "p_build", !.msgs = <<>>, !.env = {}]
    ELSE [rec EXCEPT !.pc = ApologyPc(rec.kind), !.err = origin,
                     !.out = Append(@, ApologyOf(rec.kind))]

Caught(rec, origin) ==
    [rec EXCEPT !.pc = ApologyPc(rec.kind), !.err = origin, !.msgs = <<>>,
                !.pre = <<>>, !.env = {},
                !.out = Append(@, ApologyOf(rec.kind))]

\* --------------------------------------------------------- process_message
\* update_conversation_history, first statement: the append.  The turn is the
\* user's message before the completion call and the reply after it.
history_append(t) ==
    LET rec == tasks[t]
        u == rec.user
        isUser == rec.pc = "p_append_user"
        role == IF isUser THEN "user" ELSE "assistant"
        content == IF isUser THEN rec.text ELSE rec.reply
        pc2 == IF isUser THEN "p_trunc_user" ELSE "p_trunc_asst"
    IN  /\ Runnable(t)
        /\ rec.pc \in {"p_append_user", "p_append_asst"}
        /\ conversation_history' =
               [conversation_history EXCEPT ![u] = HistAppend(@, role, content)]
        /\ appended' = [appended EXCEPT ![u] = Append(@, <<role, content>>)]
        /\ tasks' = [tasks EXCEPT ![t].pc = pc2,
                                  ![t].pre = IF isUser THEN conversation_history[u] ELSE @]
        /\ running' = LoopAfter(t, tasks'[t].pc)
        /\ UNCHANGED <<files, nUpdates>>

\* update_conversation_history, second statement: the truncation.  After the
\* assistant's turn process_message returns and the handler awaits
\* reply_text(ai_response).
ReplyPc(kind) == IF kind = "voice" THEN "v_reply" ELSE "t_reply"

history_truncate(t) ==
    LET rec == tasks[t]
        u == rec.user
        isUser == rec.pc = "p_trunc_user"
        pc2 == IF isUser THEN "p_build" ELSE ReplyPc(rec.kind)
    IN  /\ Runnable(t)
        /\ rec.pc \in {"p_trunc_user", "p_trunc_asst"}
        /\ conversation_history' =
               [conversation_history EXCEPT ![u] = HistTruncate(@)]
        /\ tasks' = [tasks EXCEPT ![t] =
                        IF isUser THEN [rec EXCEPT !.pc = pc2]
                        ELSE [rec EXCEPT !.pc = pc2, !.pre = <<>>,
                                         !.out = Append(@, rec.reply)]]
        /\ running' = LoopAfter(t, tasks'[t].pc)
        /\ UNCHANGED <<appended, files, nUpdates>>

\* messages = build_messages(user_id, message_text), which reads the
\* environment (an input of the call), then the call of
\* client.chat.completions.create(messages=messages) starts.  The client is
\* synchronous: the task keeps the event loop while the call is outstanding.
completion_call(t) ==
    LET rec == tasks[t]
    IN  /\ Runnable(t)
        /\ rec.pc = "p_build"
        /\ \E env \in Environments :
              tasks' = [tasks EXCEPT
                        ![t].pc = "completion",
                        ![t].msgs = build_messages(conversation_history[rec.user],
                                                   rec.text, env),
                        ![t].env = env,
                        ![t].calls = Append(@, "completion")]
        /\ running' = LoopAfter(t, tasks'[t].pc)
        /\ UNCHANGED <<conversation_history, appended, files, nUpdates>>

\* The completion call returns a reply, or raises.
completion_return(t) ==
    LET rec == tasks[t]
    IN  /\ Runnable(t)
        /\ rec.pc = "completion"
        /\ \/ /\ \E r \in Replies :
                    tasks' = [tasks EXCEPT ![t].pc = "p_append_asst",
                                           ![t].reply = r, ![t].msgs = <<>>,
                                           ![t].env = {}]
              /\ running' = LoopAfter(t, tasks'[t].pc)
           \/ /\ tasks' = [tasks EXCEPT ![t] = Caught(rec, "completion")]
              /\ running' = LoopAfter(t, tasks'[t].pc)
        /\ UNCHANGED <<conversation_history, appended, files,
                       nUpdates>>

\* ---------------------------------------------------------- handle_message
\* A text update: the handler enters process_message at once (no await
\* before it).
handle_message(t, u, txt) ==
    /\ CanDispatch(t)
    /\ tasks' = [tasks EXCEPT ![t] =
                    [NewTask("text", u) EXCEPT !.pc = "p_append_user", !.text = txt]]
    /\ running' = LoopAfter(t, tasks'[t].pc)
    /\ nUpdates' = nUpdates + 1
    /\ UNCHANGED <<conversation_history, appended, files>>

\* reply_text(ai_response) completes: delivered, or the send raises inside
\* the try block and the except clause awaits reply_text(apology).
reply_done(t) ==
    LET rec == tasks[t]
    IN  /\ Runnable(t)
        /\ rec.pc \in {"t_reply", "v_reply"}
        /\ \/ /\ tasks' = [tasks EXCEPT ![t] = Ended("done")]
           \/ /\ tasks' = [tasks EXCEPT ![t] = Caught(rec, "reply")]
        /\ running' = LoopAfter(t, tasks'[t].pc)
        /\ UNCHANGED <<conversation_history, appended, files, nUpdates>>

\* reply_text(apology) in the except clause completes: delivered, or the send
\* raises and the exception leaves the handler.
apology_done(t) ==
    LET rec == tasks[t]
    IN  /\ Runnable(t)
        /\ rec.pc \in {"t_apology", "v_apology"}
        /\ \/ /\ tasks' = [tasks EXCEPT ![t] = Ended("done")]
           \/ /\ tasks' = [tasks EXCEPT ![t] = Ended("raised")]
        /\ running' = LoopAfter(t, tasks'[t].pc)
        /\ UNCHANGED <<conversation_history, appended, files, nUpdates>>

\* ------------------------------------------------------------ handle_voice
\* A voice update: the handler awaits reply_text(processing notice).
handle_voice(t, u) ==
    /\ CanDispatch(t)
    /\ tasks' = [tasks EXCEPT ![t] =
                    [NewTask("voice", u) EXCEPT !.pc = "v_ack",
                                                !.out = <<PROCESSING_TEXT>>]]
    /\ running' = LoopAfter(t, tasks'[t].pc)
    /\ nUpdates' = nUpdates + 1
    /\ UNCHANGED <<conversation_history, appended, files>>

\* The processing notice is sent; the handler awaits get_file(voice.file_id).
voice_ack_done(t) ==
    LET rec == tasks[t]
    IN  /\ Runnable(t)
        /\ rec.pc = "v_ack"
        /\ \/ /\ tasks' = [tasks EXCEPT ![t].pc = "v_getfile"]
           \/ /\ tasks' = [tasks EXCEPT ![t] = Caught(rec, "ack")]
        /\ running' = LoopAfter(t, tasks'[t].pc)
        /\ UNCHANGED <<conversation_history, appended, files, nUpdates>>

\* The name NamedTemporaryFile gives a new file: one no other file has (a slot
\* creates at most one file per update it handles).
TempName(t) == <<nUpdates, t>>

\* get_file returns; NamedTemporaryFile(delete=False) creates the temporary
\* file and the handler awaits download_to_drive(temp_file.name).
voice_getfile_done(t) ==
    LET rec == tasks[t]
    IN  /\ Runnable(t)
        /\ rec.pc = "v_getfile"
        /\ \/ /\ tasks' = [tasks EXCEPT ![t].pc = "v_download",
                                        ![t].temp = TempName(t)]
              /\ files' = files \cup {TempName(t)}
           \/ /\ tasks' = [tasks EXCEPT ![t] = Caught(rec, "get_file")]
              /\ UNCHANGED files
        /\ running' = LoopAfter(t, tasks'[t].pc)
        /\ UNCHANGED <<conversation_history, appended, nUpdates>>

\* The download returns; the file is opened and the call of
\* client.audio.transcriptions.create starts (synchronous: the task keeps the
\* event loop).  A failed download leaves the with block for the except
\* clause: the file is closed, and os.unlink is not reached.
voice_download_done(t) ==
    LET rec == tasks[t]
    IN  /\ Runnable(t)
        /\ rec.pc = "v_download"
        /\ \/ /\ tasks' = [tasks EXCEPT ![t].pc = "transcription",
                                        ![t].calls = Append(@, "transcription")]
              /\ running' = LoopAfter(t, tasks'[t].pc)
           \/ /\ tasks' = [tasks EXCEPT ![t] = Caught(rec, "download")]
              /\ running' = LoopAfter(t, tasks'[t].pc)
        /\ UNCHANGED <<conversation_history, appended, files,
                       nUpdates>>

\* Mutant: process_message is given the text shown to the user.
VoiceText_Heard(txt) == HeardText(txt)

\* transcribed_text = transcript.text, the argument of process_message.
VoiceText(txt) == txt

\* The transcription call returns the transcript: the with block ends,
\* os.unlink deletes the temporary file and the handler awaits
\* edit_text(transcript).  If the call raises, control goes to the except
\* clause and os.unlink is not reached.
transcription_return(t) ==
    LET rec == tasks[t]
    IN  /\ Runnable(t)
        /\ rec.pc = "transcription"
        /\ \/ /\ \E txt \in Texts :
                    tasks' = [tasks EXCEPT ![t].pc = "v_edit", ![t].text = VoiceText(txt),
                                           ![t].out = Append(@, HeardText(txt))]
              /\ files' = files \ {rec.temp}
              /\ running' = LoopAfter(t, tasks'[t].pc)
           \/ /\ tasks' = [tasks EXCEPT ![t] = Caught(rec, "transcription")]
              /\ running' = LoopAfter(t, tasks'[t].pc)
              /\ UNCHANGED files
        /\ UNCHANGED <<conversation_history, appended, nUpdates>>

\* edit_text returns and the handler enters process_message with the
\* transcript.
voice_edit_done(t) ==
    LET rec == tasks[t]
    IN  /\ Runnable(t)
        /\ rec.pc = "v_edit"
        /\ \/ /\ tasks' = [tasks EXCEPT ![t].pc = "p_append_user"]
              /\ running' = LoopAfter(t, tasks'[t].pc)
           \/ /\ tasks' = [tasks EXCEPT ![t] = Caught(rec, "edit")]
              /\ running' = LoopAfter(t, tasks'[t].pc)
        /\ UNCHANGED <<conversation_history, appended, files,
                       nUpdates>>

\* ------------------------------------------------------------------- Init
Conversation ==
    [i \in 1..MAX_HISTORY |->
        IF i % 2 = 1 THEN <<"user", IF i % 4 = 1 THEN <<"a">> ELSE <<"b">> >>
                     ELSE <<"assistant", <<"x">> >>]

\* Histories the program holds after earlier exchanges: nine or ten turns of
\* a conversation for the first user (the ninth turn is a user turn whose
\* completion failed), none for the others.
InitLens == {9, 10}
InitHistories == {SubSeq(Conversation, 1, k) : k \in InitLens}
FirstUser == CHOOSE u \in Users : \A v \in Users : u <= v

Init ==
    /\ conversation_history \in
           {[u \in Users |-> IF u = FirstUser THEN h ELSE <<>>] : h \in InitHistories}
    /\ appended = conversation_history
    /\ tasks = [t \in TaskIds |-> Idle]
    /\ running = 0
    /\ files = {}
    /\ nUpdates = 0

Next ==
    \/ \E t \in TaskIds, u \in Users : start(t, u)
    \/ \E t \in TaskIds, u \in Users : help_command(t, u)
    \/ \E t \in TaskIds, u \in Users : clear_history(t, u)
    \/ \E t \in TaskIds : command_reply_done(t)
    \/ \E t \in TaskIds, u \in Users, txt \in Texts : handle_message(t, u, txt)
    \/ \E t \in TaskIds : history_append(t)
    \/ \E t \in TaskIds : history_truncate(t)
    \/ \E t \in TaskIds : completion_call(t)
    \/ \E t \in TaskIds : completion_return(t)
    \/ \E t \in TaskIds : reply_done(t)
    \/ \E t \in TaskIds : apology_done(t)
    \/ \E t \in TaskIds, u \in Users : handle_voice(t, u)
    \/ \E t \in TaskIds : voice_ack_done(t)
    \/ \E t \in TaskIds : voice_getfile_done(t)
    \/ \E t \in TaskIds : voice_download_done(t)
    \/ \E t \in TaskIds : transcription_return(t)
    \/ \E t \in TaskIds : voice_edit_done(t)

Spec == Init /\ [][Next]_vars

\* ===================================================================
\* Properties
\* ===================================================================
\* The last min(n, Len(s)) elements of s, in order.
Suffix(s, n) ==
    LET k == IF Len(s) < n THEN Len(s) ELSE n
    IN  [i \in 1..k |-> s[Len(s) - k + i]]

UserTurn(txt) == <<"user", txt>>
AssistantTurn(r) == <<"assistant", r>>
UserMessage(txt) == [role |-> "user", content |-> txt]

\* Task t is between the append and the truncation of an update of the store.
MidUpdate(t) == running = t /\ tasks[t].pc \in TruncPcs

\* No update of user u's history is between its two statements.
Settled(u) == ~\E t \in TaskIds : MidUpdate(t) /\ tasks[t].user = u

\* The step is one of task t's.
StepOf(t) == tasks'[t] # tasks[t]

\* C1: in the message list submitted to the completion API the new user
\* message occurs exactly once more than in the history retained from before
\* the call; the stored history already holds the new turn, so the list holds
\* the message as often as the stored history does.
C1_NewMessageOnce ==
    \A t \in TaskIds :
        tasks[t].pc = "completion" =>
            Occurrences(tasks[t].msgs, UserMessage(tasks[t].text))
                = Occurrences(conversation_history[tasks[t].user],
                              UserTurn(tasks[t].text))

\* C2: whenever no update of the store is between its append and its
\* truncation (in particular whenever the event loop is free, after any
\* sequence of handler invocations), every user's history has at most
\* MAX_HISTORY turns.
C2_LengthBounded ==
    \A u \in Users : Settled(u) => Len(conversation_history[u]) <= MAX_HISTORY

C2_Witness ==
    \E u \in Users :
        /\ running = 0
        /\ Len(appended[u]) > MAX_HISTORY
        /\ Len(conversation_history[u]) = MAX_HISTORY

\* C3: after m appends since the last clear the history is the last
\* min(m, MAX_HISTORY) appended turns, in their order of appending.
C3_LastTurnsKept ==
    \A u \in Users :
        Settled(u) => conversation_history[u] = Suffix(appended[u], MAX_HISTORY)

C3_Witness ==
    \E u \in Users :
        /\ Settled(u)
        /\ Len(appended[u]) >= MAX_HISTORY + 2
        /\ conversation_history[u] # <<>>

\* C4: when process_message succeeds with reply r for a user whose history
\* was H, the history on return is the last MAX_HISTORY turns of
\* H + (user, text) + (assistant, r), and r is what the handler sends; with
\* ten turns in H the result has ten turns, the two oldest of H gone.
C4_ProcessReturns(t) ==
    LET rec == tasks[t]
        u == rec.user
        all == rec.pre \o <<UserTurn(rec.text), AssistantTurn(rec.reply)>>
    IN  (rec.pc = "p_trunc_asst" /\ StepOf(t)) =>
            /\ tasks'[t].pc \in {"t_reply", "v_reply"}
            /\ conversation_history'[u] = Suffix(all, MAX_HISTORY)
            /\ Last(tasks'[t].out) = rec.reply
            /\ Len(rec.pre) = MAX_HISTORY =>
                  /\ Len(conversation_history'[u]) = MAX_HISTORY
                  /\ conversation_history'[u] =
                         SubSeq(rec.pre, 3, MAX_HISTORY)
                             \o <<UserTurn(rec.text), AssistantTurn(rec.reply)>>

C4_ProcessSuccess == [][\A t \in TaskIds : C4_ProcessReturns(t)]_vars

C4_Witness ==
    \E t \in TaskIds :
        LET u == tasks[t].user
            h == conversation_history[u]
        IN  /\ tasks[t].pc \in {"t_reply", "v_reply"}
            /\ Len(appended[u]) >= MAX_HISTORY + 2
            /\ Len(h) = MAX_HISTORY
            /\ h[MAX_HISTORY - 1] = UserTurn(tasks[t].text)
            /\ h[MAX_HISTORY] = AssistantTurn(tasks[t].reply)
            /\ Last(tasks[t].out) = tasks[t].reply

\* C5: when the completion call fails in handle_message, the step leaves the
\* history as it is, with the new user turn last; the handler then sends the
\* fixed apology and nothing else, and none of its later steps touches the
\* history.
C5_Failure(t) ==
    LET rec == tasks[t]
        u == rec.user
    IN  /\ (rec.kind = "text" /\ rec.pc = "completion" /\ tasks'[t].pc = "t_apology") =>
              /\ conversation_history' = conversation_history
              /\ Last(conversation_history'[u]) = UserTurn(rec.text)
              /\ tasks'[t].out = <<APOLOGY>>
              /\ tasks'[t].err = "completion"
        /\ (rec.pc = "t_apology" /\ rec.err = "completion" /\ StepOf(t)) =>
              /\ conversation_history' = conversation_history
              /\ rec.out = <<APOLOGY>>
              /\ Finished(t)'

C5_CompletionFailure == [][\A t \in TaskIds : C5_Failure(t)]_vars

C5_Witness ==
    \E t \in TaskIds :
        /\ tasks[t].kind = "text"
        /\ tasks[t].pc = "t_apology"
        /\ tasks[t].err = "completion"
        /\ Last(conversation_history[tasks[t].user]) = UserTurn(tasks[t].text)
        /\ Len(appended[tasks[t].user]) > MAX_HISTORY

\* C6: a voice handler whose audio retrieval or transcription fails changes
\* no user's history in any of its steps, from its start to its end, never
\* calls the completion API, and sends the fixed voice apology after its
\* processing notice.
BeforeTranscript == {"v_ack", "v_getfile", "v_download", "transcription"}
RetrievalErrors == {"get_file", "download", "transcription"}

C6_Failure(t) ==
    LET rec == tasks[t]
        failed == rec.pc = "v_apology" /\ rec.err \in RetrievalErrors
    IN  /\ (StepOf(t) /\ (tasks'[t].pc = "v_ack" \/ rec.pc \in BeforeTranscript \/ failed))
              => conversation_history' = conversation_history
        /\ (rec.pc \in BeforeTranscript /\ tasks'[t].pc = "v_apology") =>
              /\ tasks'[t].out = <<PROCESSING_TEXT, VOICE_APOLOGY>>
              /\ Occurrences(tasks'[t].calls, "completion") = 0
        /\ (failed /\ StepOf(t)) =>
              /\ Finished(t)'
              /\ Occurrences(rec.calls, "completion") = 0

C6_TranscriptionFailure == [][\A t \in TaskIds : C6_Failure(t)]_vars

C6_Witness ==
    \E t \in TaskIds :
        /\ tasks[t].pc = "v_apology"
        /\ tasks[t].err = "transcription"
        /\ tasks[t].out = <<PROCESSING_TEXT, VOICE_APOLOGY>>
        /\ conversation_history[tasks[t].user] # <<>>

\* C7: every temporary file that exists belongs to a voice handler still in
\* flight: a voice handler that has ended has left no file behind.
C7_NoTempFileLeft ==
    \A f \in files : \E t \in TaskIds : ~Finished(t) /\ tasks[t].temp = f

\* C8: the step of /clear or /start empties the user's history whatever it
\* held, changes no other history, and leaves the store as it is when the
\* history was already empty.
C8_Clear(t) ==
    LET u == tasks'[t].user
    IN  (StepOf(t) /\ tasks'[t].pc = "c_reply" /\ tasks'[t].kind \in {"start", "clear"}) =>
            /\ conversation_history'[u] = <<>>
            /\ conversation_history' = [conversation_history EXCEPT ![u] = <<>>]
            /\ conversation_history[u] = <<>> =>
                   conversation_history' = conversation_history

C8_ClearEmpties == [][\A t \in TaskIds : C8_Clear(t)]_vars

\* A second clear of the first user, whose history was not empty at first.
C8_Witness ==
    \E t \in TaskIds :
        /\ tasks[t].kind \in {"start", "clear"}
        /\ tasks[t].pc = "c_reply"
        /\ tasks[t].user = FirstUser
        /\ nUpdates = 2
        /\ \A s \in TaskIds \ {t} : Finished(s)
        /\ \A u \in Users : conversation_history[u] = <<>>

\* C9: an append and its truncation are one step for every other handler:
\* while a task is between the two, the next step is that task's truncation;
\* a history longer than MAX_HISTORY exists only there; and outside it the
\* history is the last turns appended since the last clear, so no turn is
\* lost but by oldest-first eviction.
C9_Atomic ==
    \A t \in TaskIds :
        MidUpdate(t) =>
            /\ StepOf(t)
            /\ tasks'[t].pc \notin TruncPcs
            /\ \A s \in TaskIds \ {t} : tasks'[s] = tasks[s]
            /\ conversation_history'[tasks[t].user]
                   = Suffix(appended[tasks[t].user], MAX_HISTORY)

C9_Observable ==
    \A u \in Users :
        /\ Len(conversation_history[u]) > MAX_HISTORY => ~Settled(u)
        /\ Settled(u) => conversation_history[u] = Suffix(appended[u], MAX_HISTORY)
        /\ \A t \in TaskIds : tasks[t].pc \in TruncPcs => running = t

C9_AppendTruncateAtomic == [](C9_Observable) /\ [][C9_Atomic]_vars

\* Two handlers of one user in flight, one of them between append and
\* truncation with eleven turns stored.
C9_Witness ==
    \E t \in TaskIds, s \in TaskIds :
        /\ t # s
        /\ MidUpdate(t)
        /\ ~Finished(s)
        /\ tasks[s].user = tasks[t].user
        /\ Len(conversation_history[tasks[t].user]) = MAX_HISTORY + 1

\* C10: while a handler waits for the completion or the transcription API, a
\* handler of another user that is in flight can take its next step, and a
\* handler for another user can start.
TaskStep(s) ==
    \/ command_reply_done(s)
    \/ history_append(s)
    \/ history_truncate(s)
    \/ completion_call(s)
    \/ completion_return(s)
    \/ reply_done(s)
    \/ apology_done(s)
    \/ voice_ack_done(s)
    \/ voice_getfile_done(s)
    \/ voice_download_done(s)
    \/ transcription_return(s)
    \/ voice_edit_done(s)

C10_OthersProgress ==
    \A t \in TaskIds :
        tasks[t].pc \in {"completion", "transcription"} =>
            /\ \A s \in TaskIds \ {t} :
                   (~Finished(s) /\ tasks[s].user # tasks[t].user)
                       => ENABLED TaskStep(s)
            /\ (nUpdates < MaxUpdates /\ \E s \in TaskIds : Finished(s)) =>
                   \A u \in Users \ {tasks[t].user} :
                       ENABLED (\E s \in TaskIds : help_command(s, u))

\* The user and the kind of the handler invocation that takes the step of
\* task t (the record is blank before the dispatch and after the end).
ActingUser(t) == IF Finished(t)' THEN tasks[t].user ELSE tasks'[t].user
ActingKind(t) == IF Finished(t)' THEN tasks[t].kind ELSE tasks'[t].kind

\* C11: every step of a handler invoked for user A leaves the history of
\* every other user as it is, and every step of the help handler leaves the
\* history of every user as it is.
C11_Frame(t) ==
    StepOf(t) =>
        /\ \A u \in Users \ {ActingUser(t)} :
               conversation_history'[u] = conversation_history[u]
        /\ ActingKind(t) = "help" => conversation_history' = conversation_history

C11_OtherUsersUntouched == [][\A t \in TaskIds : C11_Frame(t)]_vars

\* A handler of the second user has stored both of its turns, and a help
\* handler of the first user is in flight, whose ten turns are as they were.
C11_Witness ==
    \E t \in TaskIds, s \in TaskIds :
        /\ tasks[t].user # FirstUser
        /\ tasks[t].pc \in {"t_reply", "v_reply"}
        /\ Len(conversation_history[tasks[t].user]) = 2
        /\ tasks[s].kind = "help"
        /\ tasks[s].user = FirstUser
        /\ tasks[s].pc = "c_reply"
        /\ conversation_history[FirstUser] = Conversation

\* The calls of the completion API, the transcription API and the audio
\* retrieval, as origins of an exception.
ApiErrors == {"completion", "transcription", "get_file", "download"}
ApologyPcs == {"t_apology", "v_apology"}

\* C12 as claimed: a text or voice handler in which an external call has
\* failed finishes normally, no failure escapes it.
C12_NoFailureEscapes ==
    [][\A t \in TaskIds :
          (tasks[t].kind \in {"text", "voice"} /\ tasks[t].err \in ApiErrors /\ StepOf(t))
              => tasks'[t].pc # "raised"]_vars

\* C12 as amended: a failure inside the try block of a text or voice handler
\* is caught there; the handler sends exactly one apology, delivers no AI
\* reply and then ends, normally unless the sending of that apology fails,
\* which is the only failure that leaves the handler.
C12_Caught(t) ==
    LET rec == tasks[t]
        new == tasks'[t]
    IN  /\ (StepOf(t) /\ new.pc \in ApologyPcs) =>
              /\ rec.kind \in {"text", "voice"}
              /\ rec.pc \notin ApologyPcs
              /\ new.err # "none"
              /\ new.out = Append(rec.out, ApologyOf(rec.kind))
              /\ Occurrences(new.out, APOLOGY)
                     + Occurrences(new.out, VOICE_APOLOGY) = 1
              /\ new.err # "reply" => Occurrences(new.out, new.reply) = 0
              /\ new.err = "reply" => new.out[Len(new.out) - 1] = new.reply
        /\ (StepOf(t) /\ rec.kind \in {"text", "voice"} /\ new.pc = "raised")
              => rec.pc \in ApologyPcs
        /\ (StepOf(t) /\ rec.pc \in ApologyPcs) =>
              /\ Finished(t)'
              /\ conversation_history' = conversation_history

C12_FailuresCaught == [][\A t \in TaskIds : C12_Caught(t)]_vars

C12_Witness ==
    \E t \in TaskIds :
        /\ tasks[t].pc = "v_apology"
        /\ tasks[t].err = "completion"
        /\ tasks[t].out = <<PROCESSING_TEXT, HeardText(tasks[t].text), VOICE_APOLOGY>>

\* C13: when the completion succeeded and the sending of the reply fails, the
\* failure leaves the handler: the step that ends the wait for reply_text
\* ends the handler, with no apology and no further send.
C13_ReplyFailurePropagates ==
    [][\A t \in TaskIds :
          (tasks[t].pc \in {"t_reply", "v_reply"} /\ StepOf(t)) =>
              /\ Finished(t)'
              /\ tasks'[t].pc \notin ApologyPcs]_vars

IsPrefix(p, q) == Len(p) <= Len(q) /\ SubSeq(q, 1, Len(p)) = p

\* The values the environment gives SYSTEM_PROMPT: none when it is unset.
PromptSettings(env) == {p[2] : p \in {q \in env : q[1] = "SYSTEM_PROMPT"}}

\* C14: the system message of the submitted list starts with the default
\* prompt when SYSTEM_PROMPT is unset or empty, and with its value otherwise.
C14_PromptPrefix ==
    \A t \in TaskIds :
        tasks[t].pc = "completion" =>
            LET set == PromptSettings(tasks[t].env)
                expected == IF set = {} \/ set = {<<>>} THEN DEFAULT_PROMPT
                            ELSE CHOOSE v \in set : TRUE
            IN  IsPrefix(expected, tasks[t].msgs[1].content)

\* C15: the list built for history H and message m is one system entry, then
\* the turns of H in stored order, roles and contents unchanged, then a user
\* entry with content m; no other entry has the system role; building it
\* leaves the stored history as it is.
C15_Built(t) ==
    LET m == tasks[t].msgs
        H == conversation_history[tasks[t].user]
    IN  tasks[t].pc = "completion" =>
            /\ Len(m) = Len(H) + 2
            /\ m[1].role = "system"
            /\ \A i \in 1..Len(H) : m[i + 1] = [role |-> H[i][1], content |-> H[i][2]]
            /\ m[Len(m)] = UserMessage(tasks[t].text)
            /\ {i \in 1..Len(m) : m[i].role = "system"} = {1}

C15_AssembledList ==
    /\ [](\A t \in TaskIds : C15_Built(t))
    /\ [][\A t \in TaskIds :
             (tasks[t].pc = "p_build" /\ StepOf(t))
                 => conversation_history' = conversation_history]_vars

C15_Witness ==
    \E t \in TaskIds :
        /\ tasks[t].pc = "completion"
        /\ Len(conversation_history[tasks[t].user]) = MAX_HISTORY
        /\ Len(tasks[t].msgs) = MAX_HISTORY + 2
        /\ tasks[t].msgs[2].role = "assistant"
        /\ tasks[t].msgs[3].content # tasks[t].msgs[MAX_HISTORY + 1].content

\* C16: every stored turn has the role user or assistant, and a submitted
\* list holds exactly one entry with the system role.
C16_NoSystemTurnStored ==
    /\ \A u \in Users : \A i \in 1..Len(conversation_history[u]) :
           conversation_history[u][i][1] \in {"user", "assistant"}
    /\ \A t \in TaskIds :
           tasks[t].pc = "completion" =>
               Cardinality({i \in 1..Len(tasks[t].msgs) :
                               tasks[t].msgs[i].role = "system"}) = 1

C16_Witness ==
    \E t \in TaskIds :
        /\ tasks[t].pc = "completion"
        /\ Len(appended[tasks[t].user]) > MAX_HISTORY
        /\ Len(conversation_history[tasks[t].user]) = MAX_HISTORY
        /\ nUpdates = 2

\* C17: process_message does for a voice message with transcript t what it
\* does for a text message t: from history H, on success the history becomes
\* the last MAX_HISTORY turns of H + (user, t) + (assistant, r) and r is
\* sent; on completion failure it becomes the last MAX_HISTORY turns of
\* H + (user, t).  The text a voice handler processes is the transcript it
\* reported, and none of its steps before that touches the history.
ProcessSuccess(H, txt, r) == Suffix(H \o <<UserTurn(txt), AssistantTurn(r)>>, MAX_HISTORY)
ProcessFailure(H, txt) == Suffix(H \o <<UserTurn(txt)>>, MAX_HISTORY)
InProcess == {"p_append_user", "p_trunc_user", "p_build", "completion",
              "p_append_asst", "p_trunc_asst"}

C17_Same(t) ==
    LET rec == tasks[t]
        new == tasks'[t]
        u == rec.user
    IN  \A kind \in {"text", "voice"} :
            (rec.kind = kind /\ StepOf(t)) =>
                /\ rec.pc = "p_trunc_asst" =>
                      /\ conversation_history'[u] = ProcessSuccess(rec.pre, rec.text, rec.reply)
                      /\ new.pc = ReplyPc(kind)
                      /\ Last(new.out) = rec.reply
                /\ (rec.pc = "completion" /\ new.pc \in ApologyPcs) =>
                      /\ conversation_history'[u] = ProcessFailure(rec.pre, rec.text)
                      /\ new.pc = ApologyPc(kind)
                /\ (kind = "voice" /\ rec.pc \in InProcess) =>
                      /\ rec.text \in Texts
                      /\ rec.out = <<PROCESSING_TEXT, HeardText(rec.text)>>
                /\ (kind = "voice" /\ rec.pc \in BeforeTranscript \cup {"v_edit"}) =>
                      conversation_history' = conversation_history

C17_VoiceAsText == [][\A t \in TaskIds : C17_Same(t)]_vars

C17_Witness ==
    \E t \in TaskIds :
        LET u == tasks[t].user
            h == conversation_history[u]
        IN  /\ tasks[t].kind = "voice"
            /\ tasks[t].pc = "v_reply"
            /\ Len(appended[u]) >= MAX_HISTORY + 2
            /\ Len(h) = MAX_HISTORY
            /\ h[MAX_HISTORY - 1] = UserTurn(tasks[t].text)
            /\ h[MAX_HISTORY] = AssistantTurn(tasks[t].reply)
            /\ tasks[t].out = <<PROCESSING_TEXT, HeardText(tasks[t].text), tasks[t].reply>>

\* C18: in every history every assistant turn but a first one directly
\* follows a user turn.
C18_AssistantFollowsUser ==
    \A u \in Users : \A i \in 2..Len(conversation_history[u]) :
        conversation_history[u][i][1] = "assistant"
            => conversation_history[u][i - 1][1] = "user"

\* Two handlers of one user in flight, one of them inside the completion
\* call, after an earlier exchange left an assistant turn behind a user turn.
C18_Witness ==
    \E t \in TaskIds, s \in TaskIds :
        LET h == conversation_history[tasks[t].user]
        IN  /\ t # s
            /\ tasks[t].pc = "completion"
            /\ ~Finished(s)
            /\ tasks[s].user = tasks[t].user
            /\ Len(h) = MAX_HISTORY
            /\ h[1][1] = "assistant"
            /\ h[MAX_HISTORY - 1][1] = "assistant"

\* C19: a handler invocation calls the completion API at most once and the
\* transcription API at most once; a text handler calls no transcription, a
\* command handler calls neither; after a failure the handler makes no
\* further call: its only remaining step ends it.
C19_Calls(t) ==
    LET rec == tasks[t]
    IN  /\ Occurrences(rec.calls, "completion") <= 1
        /\ Occurrences(rec.calls, "transcription") <= 1
        /\ rec.kind \in {"start", "help", "clear"} => rec.calls = <<>>
        /\ rec.kind = "text" => Occurrences(rec.calls, "transcription") = 0
        /\ rec.err # "none" => rec.pc \in ApologyPcs

C19_AtMostOnce ==
    /\ [](\A t \in TaskIds : C19_Calls(t))
    /\ [][\A t \in TaskIds :
             (tasks[t].err # "none" /\ StepOf(t)) => Finished(t)']_vars

C19_Witness ==
    \E t \in TaskIds :
        /\ tasks[t].kind = "voice"
        /\ tasks[t].pc = "v_apology"
        /\ tasks[t].err = "completion"
        /\ tasks[t].calls = <<"transcription", "completion">>

====
